---- MODULE Spec2Model ----
(***************************************************************************)
(* State-machine model of dicom-scrubber: scrub_dicoms.py (the scrub       *)
(* pipeline) and check_dicoms.py (the inventory pipeline).                 *)
(*                                                                         *)
(* Python strings are sequences of one-character strings, so that          *)
(* str.split, str.replace, str.endswith, os.path.splitext and os.path.join *)
(* are computed, not assumed.  A Python value is a record [ty, v]: its     *)
(* type family and its str() text.  The file system is seen from the       *)
(* process's working directory: fs maps a normalised relative path to the  *)
(* file stored there, dirs is the set of directories.  os.rename has its   *)
(* POSIX meaning (an existing target file is replaced silently).           *)
(***************************************************************************)
EXTENDS Integers, Sequences, FiniteSets, TLC

VARIABLES
    mode,             \* which program runs: "scrub", "check" or "policy"
    pc,               \* position of the running program
    fs,               \* path -> [ds, kind, sound, src, stage]
    dirs,             \* the directories, as normalised paths
    session_path,     \* the CLI's directory argument
    scrub_field_dict, \* the loaded configuration: dict items in order
    subject_id,       \* the CLI's --subject_id (<<>> when omitted or empty)
    stack,            \* os.walk: directories still to be listed
    curdir,           \* os.walk: `path` of the current triple
    todo,             \* os.walk: matching `files` of the triple not yet visited
    dicom_file,       \* remove_identifiers_from_dicom: its argument
    dicom_data,       \* remove_identifiers_from_dicom: the decoded record
    new_filename,     \* remove_identifiers_from_dicom: result of avoid_duplicates
    fieldIdx,         \* remove_identifiers_from_dicom: position in the field loop
    dicom_number,     \* scrub_dicoms: files counted
    num_dicoms,       \* check_dicoms: files counted
    dicom_output_dict,\* check_dicoms: field name -> set of values
    out,              \* what has been printed
    lastRename,       \* history: the last os.rename call and its outcome
    placed,           \* history: the files put in the tree before the run
    vr_in,            \* policy run: the (tag, vr) argument pair
    vr_out            \* policy run: what vr_scrub returned

vars == <<mode, pc, fs, dirs, session_path, scrub_field_dict, subject_id, stack,
          curdir, todo, dicom_file, dicom_data, new_filename, fieldIdx,
          dicom_number, num_dicoms, dicom_output_dict, out, lastRename, placed,
          vr_in, vr_out>>

(***************************************************************************)
(* Bounds of the model.                                                    *)
(***************************************************************************)
\* at most this many files are placed in the tree before a run
MaxFiles == 3

(***************************************************************************)
(* Strings.                                                                *)
(***************************************************************************)
DOT == <<".">>
SLASH == <<"/">>
EXT == <<".", "d", "c", "m">>
NA == <<"N", "A">>
REDACTED == <<"R", "E", "D", "A", "C", "T", "E", "D">>
DATE0 == <<"0", "0", "0", "1", "0", "1", "0", "1">>

\* s.endswith(suffix)
EndsWith(s, suffix) ==
    /\ Len(s) >= Len(suffix)
    /\ SubSeq(s, Len(s) - Len(suffix) + 1, Len(s)) = suffix

\* s.startswith(prefix)
StartsWith(s, prefix) ==
    /\ Len(s) >= Len(prefix)
    /\ SubSeq(s, 1, Len(prefix)) = prefix

\* index of the last occurrence of character c in s, 0 when there is none
LastIndex(s, c) ==
    LET hits == {i \in 1..Len(s) : s[i] = c}
    IN  IF hits = {} THEN 0 ELSE CHOOSE i \in hits : \A j \in hits : j <= i

\* s.split('/')[-1]
LastComponent(s) == SubSeq(s, LastIndex(s, "/") + 1, Len(s))

\* os.path.dirname(s)
DirPart(s) ==
    IF LastIndex(s, "/") = 0 THEN <<>> ELSE SubSeq(s, 1, LastIndex(s, "/") - 1)

\* os.path.join(a, b) for a relative b
PathJoin(a, b) == IF a = <<>> THEN b ELSE a \o SLASH \o b

\* os.path.splitext(s): the extension starts at the last dot of the last
\* component, unless that dot is the component's first character
SplitExt(s) ==
    LET d == LastIndex(s, ".")
        b == LastIndex(s, "/")
    IN  IF d > b + 1
        THEN <<SubSeq(s, 1, d - 1), SubSeq(s, d, Len(s))>>
        ELSE <<s, <<>>>>

\* s.replace(old, new): every non-overlapping occurrence, left to right
RECURSIVE Replace(_, _, _)
Replace(s, old, new) ==
    IF old = <<>> \/ Len(s) < Len(old) THEN s
    ELSE IF StartsWith(s, old)
         THEN new \o Replace(SubSeq(s, Len(old) + 1, Len(s)), old, new)
         ELSE <<Head(s)>> \o Replace(Tail(s), old, new)

\* str(counter) for the counters the probe can reach
Digits == <<"0", "1", "2", "3", "4", "5", "6", "7", "8", "9">>
RECURSIVE IntToStr(_)
IntToStr(n) ==
    IF n < 10 THEN <<Digits[n + 1]>> ELSE IntToStr(n \div 10) \o <<Digits[(n % 10) + 1]>>

\* int(val, base=16)
HexDigit(c) ==
    CASE c = "0" -> 0 [] c = "1" -> 1 [] c = "2" -> 2 [] c = "3" -> 3
      [] c = "4" -> 4 [] c = "5" -> 5 [] c = "6" -> 6 [] c = "7" -> 7
      [] c = "8" -> 8 [] c = "9" -> 9 [] c = "A" -> 10 [] c = "B" -> 11
      [] c = "C" -> 12 [] c = "D" -> 13 [] c = "E" -> 14 [] c = "F" -> 15
RECURSIVE HexInt(_)
HexInt(s) ==
    IF s = <<>> THEN 0
    ELSE 16 * HexInt(SubSeq(s, 1, Len(s) - 1)) + HexDigit(s[Len(s)])

\* x, y = map(lambda val: int(val, base=16), field_tag.split(","))
ParseTag(field_tag) ==
    LET c == LastIndex(field_tag, ",")
    IN  <<HexInt(SubSeq(field_tag, 1, c - 1)),
          HexInt(SubSeq(field_tag, c + 1, Len(field_tag)))>>

\* the path a relative path names, seen from the working directory
RECURSIVE Norm(_)
Norm(p) ==
    IF StartsWith(p, <<".", "/">>) THEN Norm(SubSeq(p, 3, Len(p))) ELSE p

\* the directory a normalised path lies in ("." is the working directory)
ParentDir(p) == IF DirPart(p) = <<>> THEN DOT ELSE DirPart(p)

\* os.path.exists(p)
Exists(p) == Norm(p) \in DOMAIN fs \/ Norm(p) \in dirs

(***************************************************************************)
(* Python values and header records.                                       *)
(***************************************************************************)
PyStr(s) == [ty |-> "str", v |-> s]
PyInt(s) == [ty |-> "int", v |-> s]
PyFloat(s) == [ty |-> "float", v |-> s]
PyBytes(s) == [ty |-> "bytes", v |-> s]
PyNone == [ty |-> "NoneType", v |-> <<"N", "o", "n", "e">>]

\* the DICOM data dictionary's tags for the keywords the program uses
TagModality == <<8, 96>>
TagSeriesInstanceUID == <<32, 14>>
TagInstanceNumber == <<32, 19>>
TagPatientName == <<16, 16>>
TagPatientID == <<16, 32>>
TagPatientAge == <<16, 4112>>

\* the value representations of the DICOM standard
StringVRs == {"LO", "SH", "PN", "LT", "ST", "UT", "TM", "DT", "CS", "UI"}
IntegerVRs == {"IS", "SL", "SS", "UL", "US"}
DecimalVRs == {"DS", "FD", "FL"}
ByteVRs == {"OB", "OW", "UN"}
HandledVRs == StringVRs \cup IntegerVRs \cup DecimalVRs \cup ByteVRs \cup {"DA"}
OtherVRs == {"AE", "AS", "AT", "OD", "OF", "OL", "OV", "SQ", "SV", "UC", "UR", "UV"}
AllVRs == HandledVRs \cup OtherVRs

\* one printed line
Msg(kind, file, field, vr, n) ==
    [kind |-> kind, file |-> file, field |-> field, vr |-> vr, n |-> n]

\* dataset.get(keyword, default)
DsGet(ds, tag, default) == IF tag \in DOMAIN ds THEN ds[tag].value ELSE default

\* dataset[tag].value = value
DsSetValue(ds, tag, value) == [ds EXCEPT ![tag].value = value]

\* dataset.PatientID = value: the element is created (VR LO) when absent
DsSetPatientID(ds, value) ==
    [t \in DOMAIN ds \cup {TagPatientID} |->
        IF t = TagPatientID THEN [VR |-> "LO", value |-> value] ELSE ds[t]]

(***************************************************************************)
(* vr_scrub: the value returned and the lines printed.                     *)
(***************************************************************************)
\* the policy without the date branch
vr_scrub_date_as_text(tag, vr) ==
    IF vr \in StringVRs \cup {"DA"} THEN [ret |-> PyStr(REDACTED), printed |-> {}]
    ELSE IF vr \in IntegerVRs THEN [ret |-> PyInt(<<"0">>), printed |-> {}]
    ELSE IF vr \in DecimalVRs THEN [ret |-> PyFloat(<<"0", ".", "0">>), printed |-> {}]
    ELSE IF vr \in ByteVRs THEN [ret |-> PyBytes(REDACTED), printed |-> {}]
    ELSE [ret |-> PyNone, printed |-> {Msg("unhandled_vr", <<>>, tag, vr, 0)}]

vr_scrub(tag, vr) ==
    IF vr \in {"LO", "SH", "PN", "LT", "ST", "UT", "TM", "DT", "CS", "UI"}
    THEN [ret |-> PyStr(REDACTED), printed |-> {}]
    ELSE IF vr \in {"IS", "SL", "SS", "UL", "US"}
    THEN [ret |-> PyInt(<<"0">>), printed |-> {}]
    ELSE IF vr \in {"DS", "FD", "FL"}
    THEN [ret |-> PyFloat(<<"0", ".", "0">>), printed |-> {}]
    ELSE IF vr \in {"OB", "OW", "UN"}
    THEN [ret |-> PyBytes(REDACTED), printed |-> {}]
    ELSE IF vr = "DA"
    THEN [ret |-> PyStr(DATE0), printed |-> {}]
    ELSE [ret |-> PyNone, printed |-> {Msg("unhandled_vr", <<>>, tag, vr, 0)}]

(***************************************************************************)
(* avoid_duplicates: [ok, path]; ok is FALSE when the call raises          *)
(* NameError (line 67 calls unique_filename, which is defined nowhere).    *)
(***************************************************************************)
avoid_duplicates(path, counter) ==
    IF counter = 0 /\ ~Exists(path)
    THEN [ok |-> TRUE, path |-> path]
    ELSE LET new_path == SplitExt(path)[1] \o <<"_">> \o IntToStr(counter)
                             \o SplitExt(path)[2]
         IN  IF Exists(new_path)
             THEN [ok |-> FALSE, path |-> <<>>]
             ELSE [ok |-> TRUE, path |-> new_path]

\* modality + "." + seriesInstanceUID + "." + instanceNumber + ".dcm"
BaseName(ds) ==
    DsGet(ds, TagModality, PyStr(NA)).v \o DOT
        \o DsGet(ds, TagSeriesInstanceUID, PyStr(NA)).v \o DOT
        \o DsGet(ds, TagInstanceNumber, PyStr(<<"0">>)).v \o EXT

(***************************************************************************)
(* The trees a run starts from.  A file is placed at a path below the      *)
(* session directory (file 9: in the working directory, outside the tree). *)
(***************************************************************************)
El(vr, value) == [VR |-> vr, value |-> value]

Triple(uid, inst) ==
    TagModality :> El("CS", PyStr(<<"M">>))
        @@ TagSeriesInstanceUID :> El("UI", PyStr(uid))
        @@ TagInstanceNumber :> El("IS", PyInt(inst))

FileIds == 1..10

FileRel(i) ==
    CASE i = 1 -> <<"a">> \o EXT
      [] i = 2 -> <<"b">> \o EXT
      [] i = 3 -> <<"c">> \o EXT
      [] i = 4 -> <<"x", "a">> \o EXT \o SLASH \o <<"a">> \o EXT
      [] i = 5 -> <<"M", ".", "1", ".", "1">> \o EXT
      [] i = 6 -> <<"e">> \o EXT
      [] i = 7 -> <<"u">> \o EXT
      [] i = 8 -> <<"n", ".", "t", "x", "t">>
      [] i = 9 -> <<"M", ".", "1", ".", "1">> \o EXT
      [] i = 10 -> <<"d", "/", "g">> \o EXT

FileDs(i) ==
    CASE i = 1 -> Triple(<<"1">>, <<"1">>)
                    @@ TagPatientName :> El("PN", PyStr(<<"J">>))
                    @@ TagPatientID :> El("LO", PyStr(<<"P">>))
                    @@ TagPatientAge :> El("AS", PyStr(<<"3">>))
      [] i = 2 -> Triple(<<"1">>, <<"1">>)
                    @@ TagPatientName :> El("PN", PyStr(<<"K">>))
      [] i = 3 -> Triple(<<"1">>, <<"1">>)
                    @@ TagPatientName :> El("PN", PyStr(<<"J">>))
                    @@ TagPatientAge :> El("AS", PyStr(<<"4">>))
      [] i = 4 -> TagModality :> El("CS", PyStr(<<"M">>))
                    @@ TagSeriesInstanceUID :> El("UI", PyStr(<<"2">>))
                    @@ TagPatientName :> El("PN", PyStr(<<"K">>))
      [] i = 5 -> Triple(<<"1">>, <<"1">>)
                    @@ TagPatientID :> El("LO", PyStr(<<"Q">>))
      [] i = 6 -> TagPatientName :> El("PN", PyStr(<<"L">>))
      [] i = 9 -> Triple(<<"1">>, <<"1">>)
      [] i = 10 -> TagPatientName :> El("PN", PyStr(<<"J">>))
                    @@ TagPatientID :> El("LO", PyStr(<<"P">>))
      [] OTHER -> <<>>

\* "dicom": a conformant file; "nometa": no file meta header, read only with
\* force=True; "unreadable": dcmread raises; "other": not an imaging file
FileKind(i) ==
    CASE i = 6 -> "nometa" [] i = 7 -> "unreadable" [] i = 8 -> "other"
      [] OTHER -> "dicom"

\* whether save_as(write_like_original=False) can serialise the record
FileSound(i) == i # 6

FilePath(top, i) == IF i = 9 THEN FileRel(i) ELSE Norm(PathJoin(top, FileRel(i)))

FileContent(i) ==
    [ds |-> FileDs(i), kind |-> FileKind(i), sound |-> FileSound(i),
     src |-> i, stage |-> "orig"]

SessionPaths == {DOT, <<"s">>}

Trees(top) ==
    {P \in SUBSET FileIds :
        /\ Cardinality(P) <= MaxFiles
        /\ (9 \in P => top # DOT)}

InitFs(top, P) ==
    [p \in {FilePath(top, i) : i \in P} |->
        FileContent(CHOOSE i \in P : FilePath(top, i) = p)]

InitDirs(top, P) ==
    {DOT, Norm(top)} \cup {ParentDir(FilePath(top, i)) : i \in P}

(***************************************************************************)
(* Configurations (id_fields.json, scrub_fields.json): dict items in       *)
(* order, <<key, value>>.  scrub_dicoms reads tag -> name, check_dicoms    *)
(* reads name -> tag.                                                      *)
(***************************************************************************)
StrPatientName == <<"0", "0", "1", "0", ",", "0", "0", "1", "0">>
StrPatientID == <<"0", "0", "1", "0", ",", "0", "0", "2", "0">>
StrPatientAge == <<"0", "0", "1", "0", ",", "1", "0", "1", "0">>
StrModality == <<"0", "0", "0", "8", ",", "0", "0", "6", "0">>
StrStudyDate == <<"0", "0", "0", "8", ",", "0", "0", "2", "0">>

ScrubConfigs ==
    { << <<StrPatientName, "PatientName">> >>,
      << <<StrPatientName, "PatientName">>, <<StrPatientAge, "PatientAge">> >>,
      << <<StrPatientID, "PatientID">>, <<StrModality, "Modality">> >> }

CheckConfigs ==
    { << <<"PatientName", StrPatientName>> >>,
      << <<"PatientName", StrPatientName>>, <<"PatientID", StrPatientID>>,
         <<"StudyDate", StrStudyDate>> >> }

SubjectIds == {<<>>, <<"S">>}

FieldNames == {"PatientName", "PatientAge", "StudyDate"}

NoData == [ds |-> <<>>, ds0 |-> <<>>, sound |-> FALSE, src |-> 0]
NoRename ==
    [src |-> <<>>, dst |-> <<>>, result |-> "none", replaced |-> FALSE,
     base |-> <<>>, existed |-> FALSE]
Unset == [ty |-> "unset", v |-> <<>>]

InitCommon ==
    /\ pc = "start"
    /\ stack = <<>>
    /\ curdir = <<>>
    /\ todo = {}
    /\ dicom_file = <<>>
    /\ dicom_data = NoData
    /\ new_filename = <<>>
    /\ fieldIdx = 0
    /\ dicom_number = 0
    /\ num_dicoms = 0
    /\ dicom_output_dict = <<>>
    /\ out = {}
    /\ lastRename = NoRename
    /\ vr_out = Unset

InitScrub ==
    /\ mode = "scrub"
    /\ session_path \in SessionPaths
    /\ placed \in Trees(session_path)
    /\ fs = InitFs(session_path, placed)
    /\ dirs = InitDirs(session_path, placed)
    /\ scrub_field_dict \in ScrubConfigs
    /\ subject_id \in SubjectIds
    /\ vr_in = <<"", "">>

InitCheck ==
    /\ mode = "check"
    /\ session_path \in SessionPaths
    /\ placed \in Trees(session_path)
    /\ fs = InitFs(session_path, placed)
    /\ dirs = InitDirs(session_path, placed)
    /\ scrub_field_dict \in CheckConfigs
    /\ subject_id = <<>>
    /\ vr_in = <<"", "">>

InitPolicy ==
    /\ mode = "policy"
    /\ session_path = DOT
    /\ placed = {}
    /\ fs = <<>>
    /\ dirs = {DOT}
    /\ scrub_field_dict = <<>>
    /\ subject_id = <<>>
    /\ vr_in \in FieldNames \X AllVRs

Init == InitCommon /\ (InitScrub \/ InitCheck \/ InitPolicy)

(***************************************************************************)
(* os.walk and the file loop shared by scrub_dicoms and check_dicoms.      *)
(***************************************************************************)
\* the orders in which a directory listing can return the set S
Orderings(S) ==
    {q \in [1..Cardinality(S) -> S] : \A i, j \in DOMAIN q : i # j => q[i] # q[j]}

\* names of the files directly in directory d
ListFiles(d) == {LastComponent(p) : p \in {q \in DOMAIN fs : ParentDir(q) = Norm(d)}}

\* names of the directories directly in directory d
ListDirs(d) ==
    {LastComponent(p) : p \in {q \in dirs : q # DOT /\ ParentDir(q) = Norm(d)}}

\* for path, subdirs, files in os.walk(session_path): the next triple; the
\* listing is taken when the directory is reached, its sub-directories follow
WalkNextDir ==
    /\ pc = "walk"
    /\ todo = {}
    /\ stack # <<>>
    /\ LET d == Head(stack)
       IN  /\ curdir' = d
           /\ todo' = {f \in ListFiles(d) : EndsWith(f, EXT)}
           /\ \E order \in Orderings(ListDirs(d)) :
                stack' = [i \in DOMAIN order |-> PathJoin(d, order[i])] \o Tail(stack)
    /\ UNCHANGED <<mode, pc, fs, dirs, session_path, scrub_field_dict, subject_id,
                   dicom_file, dicom_data, new_filename, fieldIdx, dicom_number,
                   num_dicoms, dicom_output_dict, out, lastRename, placed, vr_in,
                   vr_out>>

\* for file in [dicom for dicom in files if dicom.endswith('.dcm')]
PickFile ==
    /\ pc = "walk"
    /\ todo # {}
    /\ \E file \in todo :
        /\ todo' = todo \ {file}
        /\ dicom_file' = PathJoin(curdir, file)
    /\ pc' = IF mode = "scrub" THEN "decode" ELSE "inspect"
    /\ UNCHANGED <<mode, fs, dirs, session_path, scrub_field_dict, subject_id, stack,
                   curdir, dicom_data, new_filename, fieldIdx, dicom_number,
                   num_dicoms, dicom_output_dict, out, lastRename, placed, vr_in,
                   vr_out>>

(***************************************************************************)
(* scrub_dicoms and remove_identifiers_from_dicom.  pc = "crashed" is an   *)
(* exception that no handler catches: the process ends with a traceback.   *)
(***************************************************************************)
ScrubBegin ==
    /\ mode = "scrub"
    /\ pc = "start"
    /\ out' = out \cup {Msg("scrubbing", session_path, "", "", 0)}
    /\ dicom_number' = 0
    /\ stack' = <<session_path>>
    /\ pc' = "walk"
    /\ UNCHANGED <<mode, fs, dirs, session_path, scrub_field_dict, subject_id,
                   curdir, todo, dicom_file, dicom_data, new_filename, fieldIdx,
                   num_dicoms, dicom_output_dict, lastRename, placed, vr_in, vr_out>>

\* whether dcm.dcmread(path, force=force) returns a record
CanDecode(file, force) == file.kind = "dicom" \/ (force /\ file.kind = "nometa")

\* lines 80-89: decode, then derive the new file name from the record
RI_Decode ==
    /\ pc = "decode"
    /\ IF Norm(dicom_file) \in DOMAIN fs /\ CanDecode(fs[Norm(dicom_file)], TRUE)
       THEN LET file == fs[Norm(dicom_file)]
                probe == avoid_duplicates(BaseName(file.ds), 0)
            IN  /\ dicom_data' = [ds |-> file.ds, ds0 |-> file.ds,
                                  sound |-> file.sound, src |-> file.src]
                /\ IF probe.ok
                   THEN /\ new_filename' = probe.path
                        /\ fieldIdx' = 1
                        /\ pc' = "scrub"
                   ELSE /\ pc' = "crashed"
                        /\ UNCHANGED <<new_filename, fieldIdx>>
       ELSE /\ pc' = "crashed"
            /\ UNCHANGED <<dicom_data, new_filename, fieldIdx>>
    /\ UNCHANGED <<mode, fs, dirs, session_path, scrub_field_dict, subject_id, stack,
                   curdir, todo, dicom_file, dicom_number, num_dicoms,
                   dicom_output_dict, out, lastRename, placed, vr_in, vr_out>>

\* the file save_as leaves at the path
Written(data) ==
    [ds |-> data.ds, kind |-> "dicom", sound |-> TRUE, src |-> data.src,
     stage |-> "scrubbed"]

\* lines 94-100: one pass of the loop body over a record
ScrubField(ds, field_tag, field_name) ==
    LET xy == ParseTag(field_tag)
    IN  IF xy \in DOMAIN ds
        THEN [ds |-> DsSetValue(ds, xy, vr_scrub(field_name, ds[xy].VR).ret),
              printed |-> vr_scrub(field_name, ds[xy].VR).printed]
        ELSE [ds |-> ds, printed |-> {}]

\* the loop body when it saves the record after each field
RI_ScrubField_WriteThrough ==
    /\ pc = "scrub"
    /\ fieldIdx <= Len(scrub_field_dict)
    /\ LET item == scrub_field_dict[fieldIdx]
           r == ScrubField(dicom_data.ds, item[1], item[2])
       IN  /\ dicom_data' = [dicom_data EXCEPT !.ds = r.ds]
           /\ out' = out \cup r.printed
    /\ fs' = [fs EXCEPT ![Norm(dicom_file)] = Written(dicom_data')]
    /\ fieldIdx' = fieldIdx + 1
    /\ UNCHANGED <<mode, pc, dirs, session_path, scrub_field_dict, subject_id,
                   stack, curdir, todo, dicom_file, new_filename, dicom_number,
                   num_dicoms, dicom_output_dict, lastRename, placed, vr_in, vr_out>>

\* lines 92-100: for field_tag, field_name in scrub_field_dict.items()
RI_ScrubField ==
    /\ pc = "scrub"
    /\ fieldIdx <= Len(scrub_field_dict)
    /\ LET item == scrub_field_dict[fieldIdx]
           r == ScrubField(dicom_data.ds, item[1], item[2])
       IN  /\ dicom_data' = [dicom_data EXCEPT !.ds = r.ds]
           /\ out' = out \cup r.printed
    /\ fieldIdx' = fieldIdx + 1
    /\ UNCHANGED <<mode, pc, fs, dirs, session_path, scrub_field_dict, subject_id,
                   stack, curdir, todo, dicom_file, new_filename, dicom_number,
                   num_dicoms, dicom_output_dict, lastRename, placed, vr_in, vr_out>>

\* the override when it only rewrites an element that is there
AssignSubjectId_IfPresent(ds, sid) ==
    IF sid # <<>> /\ TagPatientID \in DOMAIN ds
    THEN DsSetPatientID(ds, PyStr(sid))
    ELSE ds

\* lines 103-104 over a record
AssignSubjectId(ds, sid) == IF sid # <<>> THEN DsSetPatientID(ds, PyStr(sid)) ELSE ds

\* lines 102-104: if subject_id: dicom_data.PatientID = subject_id
RI_SubjectId ==
    /\ pc = "scrub"
    /\ fieldIdx > Len(scrub_field_dict)
    /\ dicom_data' = [dicom_data EXCEPT !.ds = AssignSubjectId(dicom_data.ds, subject_id)]
    /\ pc' = "save"
    /\ UNCHANGED <<mode, fs, dirs, session_path, scrub_field_dict, subject_id, stack,
                   curdir, todo, dicom_file, new_filename, fieldIdx, dicom_number,
                   num_dicoms, dicom_output_dict, out, lastRename, placed, vr_in,
                   vr_out>>

\* save_as without the except clause: the ValueError ends the run
RI_Save_Uncaught ==
    /\ pc = "save"
    /\ IF dicom_data.sound
       THEN /\ fs' = [fs EXCEPT ![Norm(dicom_file)] = Written(dicom_data)]
            /\ pc' = "rename"
       ELSE /\ pc' = "crashed"
            /\ UNCHANGED fs
    /\ UNCHANGED <<mode, dirs, session_path, scrub_field_dict, subject_id, stack,
                   curdir, todo, dicom_file, dicom_data, new_filename, fieldIdx,
                   dicom_number, num_dicoms, dicom_output_dict, out, lastRename,
                   placed, vr_in, vr_out>>

\* lines 107-108, 110-111: save_as; a ValueError is caught and reported and
\* the call returns to scrub_dicoms, which counts the file (line 133)
RI_Save ==
    /\ pc = "save"
    /\ IF dicom_data.sound
       THEN /\ fs' = [fs EXCEPT ![Norm(dicom_file)] = Written(dicom_data)]
            /\ pc' = "rename"
            /\ UNCHANGED <<out, dicom_number, dicom_data>>
       ELSE /\ out' = out \cup {Msg("missing_key_fields", dicom_file, "", "", 0)}
            /\ dicom_number' = dicom_number + 1
            /\ dicom_data' = NoData
            /\ pc' = "walk"
            /\ UNCHANGED fs
    /\ UNCHANGED <<mode, dirs, session_path, scrub_field_dict, subject_id, stack,
                   curdir, todo, dicom_file, new_filename, fieldIdx, num_dicoms,
                   dicom_output_dict, lastRename, placed, vr_in, vr_out>>

\* line 88 and the second argument of line 109
RenameTarget(path, new_name) == Replace(path, LastComponent(path), new_name)

\* os.rename(src, dst) can be carried out
RenameOk(src, dst) ==
    /\ Norm(src) \in DOMAIN fs
    /\ ParentDir(Norm(dst)) \in dirs
    /\ Norm(dst) \notin dirs

\* the file system after os.rename(src, dst)
Renamed(src, dst) ==
    [p \in (DOMAIN fs \ {Norm(src)}) \cup {Norm(dst)} |->
        IF p = Norm(dst) THEN fs[Norm(src)] ELSE fs[p]]

\* line 109: os.rename; an OSError is not a ValueError and is not caught
RI_Rename ==
    /\ pc = "rename"
    /\ LET dst == RenameTarget(dicom_file, new_filename)
           base == BaseName(dicom_data.ds0)
           sibling == Norm(PathJoin(DirPart(dicom_file), base))
           existed == sibling \in DOMAIN fs /\ sibling # Norm(dicom_file)
       IN  IF RenameOk(dicom_file, dst)
           THEN /\ fs' = Renamed(dicom_file, dst)
                /\ lastRename' = [src |-> dicom_file, dst |-> dst, result |-> "ok",
                                  replaced |-> /\ Norm(dst) \in DOMAIN fs
                                               /\ Norm(dst) # Norm(dicom_file),
                                  base |-> base, existed |-> existed]
                /\ dicom_number' = dicom_number + 1
                /\ pc' = "walk"
           ELSE /\ lastRename' = [src |-> dicom_file, dst |-> dst,
                                  result |-> "error", replaced |-> FALSE,
                                  base |-> base, existed |-> existed]
                /\ pc' = "crashed"
                /\ UNCHANGED <<fs, dicom_number>>
    /\ dicom_data' = NoData
    /\ UNCHANGED <<mode, dirs, session_path, scrub_field_dict, subject_id, stack,
                   curdir, todo, dicom_file, new_filename, fieldIdx, num_dicoms,
                   dicom_output_dict, out, placed, vr_in, vr_out>>

\* line 135
ScrubSummary ==
    /\ mode = "scrub"
    /\ pc = "walk"
    /\ todo = {}
    /\ stack = <<>>
    /\ out' = out \cup {Msg("scrubbed", session_path, "", "", dicom_number)}
    /\ pc' = "done"
    /\ UNCHANGED <<mode, fs, dirs, session_path, scrub_field_dict, subject_id, stack,
                   curdir, todo, dicom_file, dicom_data, new_filename, fieldIdx,
                   dicom_number, num_dicoms, dicom_output_dict, lastRename, placed,
                   vr_in, vr_out>>

(***************************************************************************)
(* check_dicoms.                                                           *)
(***************************************************************************)
\* the keys of the configuration
ConfigKeys == {scrub_field_dict[i][1] : i \in DOMAIN scrub_field_dict}

\* lines 18-27
CheckBegin ==
    /\ mode = "check"
    /\ pc = "start"
    /\ out' = out \cup {Msg("checking", session_path, "", "", 0)}
    /\ dicom_output_dict' = [field_name \in ConfigKeys |-> {}]
    /\ num_dicoms' = 0
    /\ stack' = <<session_path>>
    /\ pc' = "walk"
    /\ UNCHANGED <<mode, fs, dirs, session_path, scrub_field_dict, subject_id,
                   curdir, todo, dicom_file, dicom_data, new_filename, fieldIdx,
                   dicom_number, lastRename, placed, vr_in, vr_out>>

\* the field loop when a found value replaces the set instead of joining it
Accumulate_Overwrite(acc, ds) ==
    [field_name \in DOMAIN acc |->
        LET found == {ds[ParseTag(scrub_field_dict[i][2])].value :
                        i \in {j \in DOMAIN scrub_field_dict :
                                /\ scrub_field_dict[j][1] = field_name
                                /\ ParseTag(scrub_field_dict[j][2]) \in DOMAIN ds}}
        IN  IF found = {} THEN acc[field_name] ELSE found]

\* lines 36-42 over one record: the accumulator after the field loop
Accumulate(acc, ds) ==
    [field_name \in DOMAIN acc |->
        acc[field_name] \cup
            {ds[ParseTag(scrub_field_dict[i][2])].value :
                i \in {j \in DOMAIN scrub_field_dict :
                        /\ scrub_field_dict[j][1] = field_name
                        /\ ParseTag(scrub_field_dict[j][2]) \in DOMAIN ds}}]

\* lines 32-42: count, decode (no force: InvalidDicomError is not caught),
\* accumulate
CheckFile ==
    /\ pc = "inspect"
    /\ num_dicoms' = num_dicoms + 1
    /\ IF Norm(dicom_file) \in DOMAIN fs /\ CanDecode(fs[Norm(dicom_file)], FALSE)
       THEN /\ dicom_output_dict' =
                    Accumulate(dicom_output_dict, fs[Norm(dicom_file)].ds)
            /\ pc' = "walk"
       ELSE /\ pc' = "crashed"
            /\ UNCHANGED dicom_output_dict
    /\ UNCHANGED <<mode, fs, dirs, session_path, scrub_field_dict, subject_id, stack,
                   curdir, todo, dicom_file, dicom_data, new_filename, fieldIdx,
                   dicom_number, out, lastRename, placed, vr_in, vr_out>>

\* lines 44-47
CheckSummary ==
    /\ mode = "check"
    /\ pc = "walk"
    /\ todo = {}
    /\ stack = <<>>
    /\ out' = out \cup {Msg("found", session_path, "", "", num_dicoms)}
                  \cup {Msg("values", <<>>, field_name, "",
                            Cardinality(dicom_output_dict[field_name])) :
                                field_name \in DOMAIN dicom_output_dict}
    /\ pc' = "done"
    /\ UNCHANGED <<mode, fs, dirs, session_path, scrub_field_dict, subject_id, stack,
                   curdir, todo, dicom_file, dicom_data, new_filename, fieldIdx,
                   dicom_number, num_dicoms, dicom_output_dict, lastRename, placed,
                   vr_in, vr_out>>

(***************************************************************************)
(* A single call of vr_scrub on any value representation.                  *)
(***************************************************************************)
PolicyCall ==
    /\ mode = "policy"
    /\ pc = "start"
    /\ vr_out' = vr_scrub(vr_in[1], vr_in[2]).ret
    /\ out' = out \cup vr_scrub(vr_in[1], vr_in[2]).printed
    /\ pc' = "done"
    /\ UNCHANGED <<mode, fs, dirs, session_path, scrub_field_dict, subject_id, stack,
                   curdir, todo, dicom_file, dicom_data, new_filename, fieldIdx,
                   dicom_number, num_dicoms, dicom_output_dict, lastRename, placed,
                   vr_in>>

Next ==
    \/ WalkNextDir
    \/ PickFile
    \/ ScrubBegin
    \/ RI_Decode
    \/ RI_ScrubField
    \/ RI_SubjectId
    \/ RI_Save
    \/ RI_Rename
    \/ ScrubSummary
    \/ CheckBegin
    \/ CheckFile
    \/ CheckSummary
    \/ PolicyCall

Spec == Init /\ [][Next]_vars

(***************************************************************************)
(* Properties.                                                             *)
(***************************************************************************)
\* the files of the session tree that the walk matches
InTree(p) == session_path = DOT \/ StartsWith(p, session_path \o SLASH)
Matching == {p \in DOMAIN fs : InTree(p) /\ EndsWith(p, EXT)}

\* two placed files lie in one directory of the tree and derive one base name
Collide(i, j) ==
    /\ i # j
    /\ FilePath(session_path, i) \in {p \in {FilePath(session_path, k) : k \in placed} :
                                        InTree(p) /\ EndsWith(p, EXT)}
    /\ FilePath(session_path, j) \in {p \in {FilePath(session_path, k) : k \in placed} :
                                        InTree(p) /\ EndsWith(p, EXT)}
    /\ ParentDir(FilePath(session_path, i)) = ParentDir(FilePath(session_path, j))
    /\ CanDecode(FileContent(i), TRUE) /\ CanDecode(FileContent(j), TRUE)
    /\ BaseName(FileDs(i)) = BaseName(FileDs(j))

\* C1: in a scrub run over files of one directory that derive the same base
\* name, no rename replaces an existing file, and when the run has ended
\* each of these source files is still there under a name of its own.
C1_NoCollision ==
    (mode = "scrub" /\ \E i, j \in placed : Collide(i, j)) =>
        /\ ~lastRename.replaced
        /\ pc = "done" =>
            \A i, j \in placed : Collide(i, j) => \E p \in DOMAIN fs : fs[p].src = i

\* C2: for every supported value representation vr_scrub returns the
\* replacement of the policy table, of the documented type family, whatever
\* the field name: 'REDACTED' for the string types, 0 for the integer types,
\* 0.0 for the decimal types, b'REDACTED' for the byte types, '00010101' for DA.
C2_PolicyTable ==
    (mode = "policy" /\ pc = "done") =>
        /\ vr_in[2] \in StringVRs => vr_out = PyStr(REDACTED)
        /\ vr_in[2] \in IntegerVRs => vr_out = PyInt(<<"0">>)
        /\ vr_in[2] \in DecimalVRs => vr_out = PyFloat(<<"0", ".", "0">>)
        /\ vr_in[2] \in ByteVRs => vr_out = PyBytes(REDACTED)
        /\ vr_in[2] = "DA" => vr_out = PyStr(DATE0)
        /\ vr_in[2] \in HandledVRs => vr_out.ty \in {"str", "int", "float", "bytes"}

\* vr_scrub has returned for the date type
C2_Reached == mode = "policy" /\ pc = "done" /\ vr_in[2] = "DA" /\ vr_out # Unset

\* the configured fields of the decoded record whose VR the policy lacks
Unrecognised(data) ==
    {ParseTag(scrub_field_dict[i][1]) : i \in DOMAIN scrub_field_dict} \cap
        {t \in DOMAIN data.ds0 : data.ds0[t].VR \notin HandledVRs}

\* C3: when the field loop has run over a record, every configured element
\* whose value representation the policy does not recognise has been
\* reported and still holds the value it was decoded with.
C3_UnknownLeftAlone ==
    (mode = "scrub" /\ pc = "save") =>
        \A t \in Unrecognised(dicom_data) :
            /\ dicom_data.ds[t].value = dicom_data.ds0[t].value
            /\ \E m \in out : m.kind = "unhandled_vr" /\ m.vr = dicom_data.ds0[t].VR

C5_NeverAborts == pc # "crashed"

\* the tags of the configured fields
ConfiguredTags == {ParseTag(scrub_field_dict[i][1]) : i \in DOMAIN scrub_field_dict}

\* C6: with a subject id, PatientID of every written file is that id,
\* configured or not, present before or not; without one, PatientID is
\* absent if it was absent, 'REDACTED' if configured, else unchanged.
C6_SubjectId ==
    mode = "scrub" =>
        \A p \in DOMAIN fs :
            fs[p].stage = "scrubbed" =>
                LET ds == fs[p].ds
                    orig == FileDs(fs[p].src)
                IN  IF subject_id # <<>>
                    THEN /\ TagPatientID \in DOMAIN ds
                         /\ ds[TagPatientID].value = PyStr(subject_id)
                    ELSE /\ TagPatientID \in DOMAIN ds <=> TagPatientID \in DOMAIN orig
                         /\ TagPatientID \in DOMAIN orig =>
                                ds[TagPatientID].value =
                                    IF TagPatientID \in ConfiguredTags
                                    THEN PyStr(REDACTED)
                                    ELSE orig[TagPatientID].value

\* a file without PatientID was written in a run with a subject id
C6_Reached ==
    /\ mode = "scrub"
    /\ subject_id # <<>>
    /\ \E p \in DOMAIN fs :
        /\ fs[p].stage = "scrubbed"
        /\ TagPatientID \notin DOMAIN FileDs(fs[p].src)

\* C7: after a successful scrub a file that did not bear the derived name
\* already is named by the values decoded before scrubbing,
\* <Modality>.<SeriesUID>.<InstanceNumber>.dcm, if its directory has no file
\* of that name, and with _1 before the extension if it has.
C7_DerivedName ==
    (/\ mode = "scrub"
     /\ lastRename.result = "ok"
     /\ LastComponent(lastRename.src) # lastRename.base) =>
        lastRename.dst =
            PathJoin(DirPart(lastRename.src),
                     IF lastRename.existed
                     THEN SplitExt(lastRename.base)[1] \o <<"_", "1">>
                              \o SplitExt(lastRename.base)[2]
                     ELSE lastRename.base)

\* when the walk has ended: the count and each field's set of values
C8_Final ==
    (mode = "check" /\ pc = "done") =>
        /\ num_dicoms = Cardinality(Matching)
        /\ DOMAIN dicom_output_dict = ConfigKeys
        /\ \A i \in DOMAIN scrub_field_dict :
            dicom_output_dict[scrub_field_dict[i][1]] =
                {fs[p].ds[ParseTag(scrub_field_dict[i][2])].value :
                    p \in {q \in Matching :
                            ParseTag(scrub_field_dict[i][2]) \in DOMAIN fs[q].ds}}

\* a step never removes a value or a field from the accumulator
C8_Grows ==
    (mode = "check" /\ pc # "start") =>
        \A f \in DOMAIN dicom_output_dict :
            /\ f \in DOMAIN dicom_output_dict'
            /\ dicom_output_dict[f] \subseteq dicom_output_dict'[f]

\* C8: the accumulator only grows, and when the walk has ended the count is
\* the number of matching files and each field's set is the union of that
\* field's values over the matching files that hold it, in whatever order
\* the files were visited; with no matching file the count is 0 and every
\* set is empty.
C8_Inventory == [](C8_Final) /\ [][C8_Grows]_vars

\* an inventory over several files has ended with a two-valued field
C8_Reached ==
    /\ mode = "check"
    /\ pc = "done"
    /\ num_dicoms >= 2
    /\ \E f \in DOMAIN dicom_output_dict : Cardinality(dicom_output_dict[f]) >= 2
    /\ \E f \in DOMAIN dicom_output_dict : dicom_output_dict[f] = {}

\* the record that results from redacting every configured field of orig
\* that is present, and the override
FullyScrubbed(ds, orig) ==
    /\ DOMAIN ds = DOMAIN orig \cup (IF subject_id # <<>> THEN {TagPatientID} ELSE {})
    /\ \A t \in DOMAIN ds :
        IF subject_id # <<>> /\ t = TagPatientID
        THEN ds[t] = El("LO", PyStr(subject_id))
        ELSE IF t \in ConfiguredTags
        THEN ds[t] = El(orig[t].VR, vr_scrub("", orig[t].VR).ret)
        ELSE ds[t] = orig[t]

\* C9: decode, redact, persist, rename happen in this order: the record is
\* written only when fully redacted in memory and renamed only when
\* written, so every file on disk is the original under its original path
\* or a fully scrubbed record.
C9_Order ==
    mode = "scrub" =>
        /\ \A p \in DOMAIN fs :
            /\ fs[p].stage = "orig" =>
                /\ p = FilePath(session_path, fs[p].src)
                /\ fs[p].ds = FileDs(fs[p].src)
            /\ fs[p].stage = "scrubbed" => FullyScrubbed(fs[p].ds, FileDs(fs[p].src))
        /\ pc \in {"save", "rename"} => FullyScrubbed(dicom_data.ds, dicom_data.ds0)
        /\ pc = "rename" =>
            /\ Norm(dicom_file) \in DOMAIN fs
            /\ fs[Norm(dicom_file)] = Written(dicom_data)
        /\ lastRename.result = "ok" =>
            /\ Norm(lastRename.dst) \in DOMAIN fs
            /\ fs[Norm(lastRename.dst)].stage = "scrubbed"

\* a file with two configured fields present was written and renamed
C9_Reached ==
    /\ mode = "scrub"
    /\ lastRename.result = "ok"
    /\ lastRename.dst # lastRename.src
    /\ Cardinality(ConfiguredTags \cap DOMAIN fs[Norm(lastRename.dst)].ds) >= 2

\* C10: the rename target lies in the directory of the source path.
C10_SameDirectory ==
    (mode = "scrub" /\ lastRename.result # "none") =>
        DirPart(lastRename.dst) = DirPart(lastRename.src)

====
